---------------------------- MODULE Spec2Model ----------------------------
(***************************************************************************)
(* Model of gb_electricity_production_by_source.py: a single linear        *)
(* script  load -> filter -> aggregate -> smooth -> normalise -> render -> *)
(* save.  pandas/numpy float64 values are modelled as exact rationals      *)
(* extended with NaN and +/-infinity (IEEE-754 division by zero), so that  *)
(* quantile interpolation, rolling means and percentages are computed as   *)
(* the libraries compute them, up to rounding.                             *)
(***************************************************************************)
EXTENDS Integers, Sequences, FiniteSets

VARIABLES
    pc,                   \* position of the script: the stage last completed
    err,                  \* the unhandled exception that ended the run, or "none"
    df,                   \* DataFrame returned by read_data_from_csv
    df_filtered,          \* DataFrame returned by filter_data
    green_energy,         \* the four category series (line 51-53), then
    nuclear,              \*   overwritten by their rolling means (line 56-61)
    fossil_fuels,
    coal,
    total,                \* line 64
    green_percent,        \* line 67-70
    nuclear_percent,
    fossil_fuels_percent,
    coal_percent,
    dataLim,              \* y data limits of the axes, set by stackplot
    ylim,                 \* y view limits of the axes
    autoscaley_on,        \* whether the y axis autoscales
    xlim,                 \* x view limits of the axes
    png,                  \* ./images/gb_electricity_production.png written
    svg,                  \* ./images/gb_electricity_production.svg written
    series,               \* rolling-mean study: the input series
    window,               \* rolling-mean study: the window size
    rolled                \* rolling-mean study: the output series

vars == <<pc, err, df, df_filtered, green_energy, nuclear, fossil_fuels, coal,
          total, green_percent, nuclear_percent, fossil_fuels_percent,
          coal_percent, dataLim, ylim, autoscaley_on, xlim, png, svg,
          series, window, rolled>>

(***************************************************************************)
(* Bounds of the model.                                                    *)
(***************************************************************************)
\* longest Dataset fed to the whole pipeline
MaxRows == 5
\* longest Dataset fed to the filter alone
MaxFilterRows == 6
\* largest demand value fed to the filter alone
MaxDemand == 4
\* longest series fed to the moving average alone
MaxLen == 4
\* largest small window tried for the moving average (besides Window itself)
MaxWindow == 5

(***************************************************************************)
(* Program constants.                                                      *)
(***************************************************************************)
\* quantile ranks 0.00013 and 0.999933, as numerators over QDen
QDen == 1000000
QLowNum == 130
QHiNum == 999933
\* series.rolling(50000, min_periods=1)
Window == 50000
MinPeriods == 1
\* ax.set_ylim([0, 1])
YLimLow == 0
YLimHigh == 1
\* datetime(2012, 1, 1), the origin of the model's time axis
StartDate == 0

(***************************************************************************)
(* float64 values: finite rationals n/d in lowest terms (d > 0), NaN, and  *)
(* the infinities (n = 1 or -1).                                           *)
(***************************************************************************)
Abs(x) == IF x < 0 THEN -x ELSE x

Sign(x) == IF x < 0 THEN -1 ELSE IF x > 0 THEN 1 ELSE 0

RECURSIVE GCD(_, _)
GCD(a, b) == IF b = 0 THEN a ELSE GCD(b, a % b)

NaN == [k |-> "nan", n |-> 0, d |-> 1]

Inf(s) == [k |-> "inf", n |-> s, d |-> 1]

Fin(num, den) ==
    LET s == IF den < 0 THEN -1 ELSE 1
        g == GCD(Abs(num), Abs(den))
    IN  [k |-> "fin", n |-> (s * num) \div g, d |-> (s * den) \div g]

Int2F(x) == Fin(x, 1)

IsFinite(a) == a.k = "fin"

IsNaN(a) == a.k = "nan"

\* a < b on floats: FALSE whenever an operand is NaN
FLt(a, b) ==
    CASE a.k = "nan" \/ b.k = "nan" -> FALSE
      [] a.k = "fin" /\ b.k = "fin" -> a.n * b.d < b.n * a.d
      [] a.k = "inf" /\ b.k = "inf" -> a.n < b.n
      [] a.k = "inf" -> a.n < 0
      [] OTHER -> b.n > 0

FAdd(a, b) ==
    CASE a.k = "nan" \/ b.k = "nan" -> NaN
      [] a.k = "fin" /\ b.k = "fin" -> Fin(a.n * b.d + b.n * a.d, a.d * b.d)
      [] a.k = "inf" /\ b.k = "inf" -> IF a.n = b.n THEN a ELSE NaN
      [] a.k = "inf" -> a
      [] OTHER -> b

\* c * a for a non-zero integer c
FScale(c, a) ==
    CASE a.k = "nan" -> NaN
      [] a.k = "fin" -> Fin(c * a.n, a.d)
      [] OTHER -> Inf(Sign(c) * a.n)

\* a / b for a finite divisor b: x/0 is +/-inf for x # 0 and NaN for 0/0;
\* nothing is raised
FDiv(a, b) ==
    CASE a.k = "nan" -> NaN
      [] b.n = 0 -> IF a.n = 0 THEN NaN ELSE Inf(Sign(a.n))
      [] a.k = "inf" -> Inf(a.n * Sign(b.n))
      [] OTHER -> Fin(a.n * b.d, a.d * b.n)

(***************************************************************************)
(* Input data.  A Reading is one row of gridwatch.csv.                     *)
(***************************************************************************)
Profile(co, nu, cc, wi, hy, bi, oi, so, oc, ot) ==
    [coal |-> co, nuclear |-> nu, ccgt |-> cc, wind |-> wi, hydro |-> hy,
     biomass |-> bi, oil |-> oi, solar |-> so, ocgt |-> oc, other |-> ot]

\* nothing generated
PZero == Profile(0, 0, 0, 0, 0, 0, 0, 0, 0, 0)
\* an ordinary mix: green 3, nuclear 1, fossil 2, coal 1
PMix == Profile(1, 1, 1, 1, 0, 1, 0, 1, 1, 0)
\* gas and diesel only: fossil 3
PGas == Profile(0, 0, 2, 0, 0, 0, 0, 0, 0, 1)
\* a reading with a negative value: green 1, coal -1, sum 0
PNeg == Profile(-1, 0, 0, 1, 0, 0, 0, 0, 0, 0)

Reading(d, p) ==
    [id |-> 0, timestamp |-> 0, demand |-> d,
     coal |-> p.coal, nuclear |-> p.nuclear, ccgt |-> p.ccgt, wind |-> p.wind,
     hydro |-> p.hydro, biomass |-> p.biomass, oil |-> p.oil,
     solar |-> p.solar, ocgt |-> p.ocgt, other |-> p.other]

\* the sample readings the pipeline is run on
Readings ==
    {Reading(1, PNeg), Reading(2, PZero), Reading(2, PMix), Reading(2, PNeg),
     Reading(3, PGas), Reading(4, PMix)}

\* the sample readings the filter alone is run on
DemandReadings == {Reading(d, PMix) : d \in 1..MaxDemand}

\* row i of the file gets id i and the i-th timestamp after StartDate
Table(f, n) ==
    [i \in 1..n |-> [f[i] EXCEPT !.id = i, !.timestamp = StartDate + i]]

Column(rows, c) == [i \in 1..Len(rows) |-> rows[i][c]]

(***************************************************************************)
(* Series.quantile(q), linear interpolation between order statistics.      *)
(***************************************************************************)
RECURSIVE Insert(_, _)
Insert(x, s) ==
    IF s = <<>> THEN <<x>>
    ELSE IF x <= Head(s) THEN <<x>> \o s
    ELSE <<Head(s)>> \o Insert(x, Tail(s))

RECURSIVE Sorted(_)
Sorted(s) == IF s = <<>> THEN <<>> ELSE Insert(Head(s), Sorted(Tail(s)))

quantile(values, qnum) ==
    IF Len(values) = 0 THEN NaN
    ELSE LET s    == Sorted(values)
             pos  == qnum * (Len(s) - 1)
             lo   == pos \div QDen + 1
             frac == pos % QDen
             hi   == IF frac = 0 THEN lo ELSE lo + 1
         IN  Fin(s[lo] * QDen + (s[hi] - s[lo]) * frac, QDen)

\* df[(df[" demand"] < q_hi) & (df[" demand"] > q_low)]
FilterRows(rows, q_low, q_hi) ==
    LET keep(r) == FLt(Int2F(r.demand), q_hi) /\ FLt(q_low, Int2F(r.demand))
    IN  SelectSeq(rows, keep)

(***************************************************************************)
(* filter_data(df): both quantiles come from the demand column of df.      *)
(***************************************************************************)
\* variant: the comparisons are not strict (<=, >=)
filter_data_nonstrict(rows) ==
    LET q_low == quantile(Column(rows, "demand"), QLowNum)
        q_hi  == quantile(Column(rows, "demand"), QHiNum)
        keep(r) == ~FLt(q_hi, Int2F(r.demand)) /\ ~FLt(Int2F(r.demand), q_low)
    IN  SelectSeq(rows, keep)

\* variant: only the upper comparison is applied
filter_data_upper_only(rows) ==
    LET q_hi  == quantile(Column(rows, "demand"), QHiNum)
        keep(r) == FLt(Int2F(r.demand), q_hi)
    IN  SelectSeq(rows, keep)

\* variant: only the lower comparison is applied
filter_data_lower_only(rows) ==
    LET q_low == quantile(Column(rows, "demand"), QLowNum)
        keep(r) == FLt(q_low, Int2F(r.demand))
    IN  SelectSeq(rows, keep)

\* variant: the retained rows come back in reverse order
filter_data_reversed(rows) ==
    LET kept == FilterRows(rows, quantile(Column(rows, "demand"), QLowNum),
                                 quantile(Column(rows, "demand"), QHiNum))
    IN  [i \in 1..Len(kept) |-> kept[Len(kept) + 1 - i]]

filter_data(rows) ==
    LET q_low == quantile(Column(rows, "demand"), QLowNum)
        q_hi  == quantile(Column(rows, "demand"), QHiNum)
    IN  FilterRows(rows, q_low, q_hi)

(***************************************************************************)
(* series.rolling(N, min_periods).mean(): a sliding window that adds the   *)
(* entering observation and removes the leaving one; an element is the     *)
(* window's sum over its count when the count reaches min_periods.         *)
(***************************************************************************)
RECURSIVE WindowState(_, _, _)
WindowState(s, N, i) ==
    IF i = 0 THEN [sum |-> 0, nobs |-> 0]
    ELSE LET prev  == WindowState(s, N, i - 1)
             added == [sum |-> prev.sum + s[i], nobs |-> prev.nobs + 1]
         IN  IF i > N
             THEN [sum |-> added.sum - s[i - N], nobs |-> added.nobs - 1]
             ELSE added

RollingWith(s, N, minp) ==
    [i \in 1..Len(s) |->
        LET w == WindowState(s, N, i)
        IN  IF w.nobs >= minp /\ w.nobs > 0 THEN Fin(w.sum, w.nobs) ELSE NaN]

\* variant: min_periods left at its default, the window size
rolling_default_min_periods(s, N) == RollingWith(s, N, N)

rolling(s, N) == RollingWith(s, N, MinPeriods)

rolling_mean(s) == rolling(s, Window)

(***************************************************************************)
(* Aggregation and normalisation (elementwise on aligned series).          *)
(***************************************************************************)
green_sum(rows) ==
    [i \in 1..Len(rows) |->
        rows[i].wind + rows[i].hydro + rows[i].biomass + rows[i].solar]

fossil_sum(rows) ==
    [i \in 1..Len(rows) |->
        rows[i].ccgt + rows[i].oil + rows[i].ocgt + rows[i].other]

\* variant: the total is the smoothed demand column
total_from_demand(g, f, c, n) ==
    [i \in 1..Len(g) |-> rolling_mean(Column(df_filtered, "demand"))[i]]

\* green_energy + fossil_fuels + coal + nuclear
total_of(g, f, c, n) ==
    [i \in 1..Len(g) |-> FAdd(FAdd(FAdd(g[i], f[i]), c[i]), n[i])]

\* variant: a zero total gives NaN whatever the numerator
percent_nan_on_zero(x, t) ==
    [i \in 1..Len(x) |->
        IF t[i].n = 0 THEN NaN ELSE FDiv(FScale(100, x[i]), t[i])]

\* 100 * x / total
percent_of(x, t) == [i \in 1..Len(x) |-> FDiv(FScale(100, x[i]), t[i])]

(***************************************************************************)
(* The axes.  stackplot stacks the four series with a cumulative sum on a  *)
(* zero baseline and feeds every finite edge to the data limits; the view  *)
(* limits follow the data limits whenever the axis autoscales.             *)
(***************************************************************************)
NoData == [lo |-> NaN, hi |-> NaN]

FMin(S) == CHOOSE x \in S : \A y \in S : ~FLt(y, x)

FMax(S) == CHOOSE x \in S : \A y \in S : ~FLt(x, y)

\* np.cumsum over the stacking order green, nuclear, fossil, coal
StackEdges(g, n, f, c, i) ==
    LET s1 == g[i]
        s2 == FAdd(s1, n[i])
        s3 == FAdd(s2, f[i])
        s4 == FAdd(s3, c[i])
    IN  {Int2F(0), s1, s2, s3, s4}

stack_data_lim(g, n, f, c) ==
    LET pts == {e \in UNION {StackEdges(g, n, f, c, i) : i \in 1..Len(g)} :
                    IsFinite(e)}
    IN  IF pts = {} THEN NoData ELSE [lo |-> FMin(pts), hi |-> FMax(pts)]

\* transforms.nonsingular with expander 0.05: an empty interval is widened
nonsingular(lim) ==
    IF lim.lo # lim.hi THEN lim
    ELSE IF lim.lo.n = 0 THEN [lo |-> Fin(-1, 20), hi |-> Fin(1, 20)]
    ELSE [lo |-> FAdd(lim.lo, FScale(-1, Fin(Abs(lim.lo.n), 20 * lim.lo.d))),
          hi |-> FAdd(lim.hi, Fin(Abs(lim.hi.n), 20 * lim.hi.d))]

\* variant: autoscaling leaves limits that were set by hand alone
autoscale_view_keeps_manual(lim, tight, current) == current

\* Axes.autoscale_view: the data limits, widened by the 5% margin unless
\* tight; the zero baseline is a sticky edge the margin does not cross
autoscale_view(lim, tight, current) ==
    IF lim = NoData THEN current
    ELSE LET ns    == nonsingular(lim)
             delta == FScale(1, FDiv(FAdd(ns.hi, FScale(-1, ns.lo)), Int2F(20)))
         IN  IF tight THEN ns
             ELSE [lo |-> IF ns.lo.n = 0 THEN ns.lo
                          ELSE FAdd(ns.lo, FScale(-1, delta)),
                   hi |-> IF ns.hi.n = 0 THEN ns.hi ELSE FAdd(ns.hi, delta)]

(***************************************************************************)
(* The script, one action per stage.                                       *)
(***************************************************************************)
dataVars == <<df, df_filtered>>
seriesVars == <<green_energy, nuclear, fossil_fuels, coal>>
percentVars == <<total, green_percent, nuclear_percent, fossil_fuels_percent,
                 coal_percent>>
axesVars == <<dataLim, ylim, autoscaley_on, xlim>>
fileVars == <<png, svg>>
studyVars == <<series, window, rolled>>

Init ==
    /\ pc = "start"
    /\ err = "none"
    /\ df = <<>>
    /\ df_filtered = <<>>
    /\ green_energy = <<>>
    /\ nuclear = <<>>
    /\ fossil_fuels = <<>>
    /\ coal = <<>>
    /\ total = <<>>
    /\ green_percent = <<>>
    /\ nuclear_percent = <<>>
    /\ fossil_fuels_percent = <<>>
    /\ coal_percent = <<>>
    /\ dataLim = NoData
    /\ ylim = [lo |-> Int2F(0), hi |-> Int2F(1)]
    /\ autoscaley_on = TRUE
    /\ xlim = [lo |-> 0, hi |-> 1]
    /\ png = FALSE
    /\ svg = FALSE
    /\ series = <<>>
    /\ window = Window
    /\ rolled = <<>>

\* an unhandled exception ends the process
Raise(e) == pc' = "error" /\ err' = e

\* read_data_from_csv(): the file's rows (at most maxn readings out of R),
\* or a data-access error
read_data_from_csv(R, maxn) ==
    /\ pc = "start"
    /\ \/ /\ \E n \in 0..maxn : \E f \in [1..n -> R] : df' = Table(f, n)
          /\ pc' = "loaded"
          /\ err' = err
       \/ /\ Raise("FileNotFoundError")
          /\ df' = df
    /\ UNCHANGED <<df_filtered, seriesVars, percentVars, axesVars, fileVars,
                   studyVars>>

Load == read_data_from_csv(Readings, MaxRows)

LoadDemand == read_data_from_csv(DemandReadings, MaxFilterRows)

\* df_filtered = filter_data(...)
Filter ==
    /\ pc = "loaded"
    /\ df_filtered' = filter_data(df)
    /\ pc' = "filtered"
    /\ UNCHANGED <<err, df, seriesVars, percentVars, axesVars, fileVars,
                   studyVars>>

\* column selection and the category sums
Aggregate ==
    /\ pc = "filtered"
    /\ green_energy' = green_sum(df_filtered)
    /\ fossil_fuels' = fossil_sum(df_filtered)
    /\ nuclear' = Column(df_filtered, "nuclear")
    /\ coal' = Column(df_filtered, "coal")
    /\ pc' = "aggregated"
    /\ UNCHANGED <<err, dataVars, percentVars, axesVars, fileVars, studyVars>>

\* the four rolling means
Smooth ==
    /\ pc = "aggregated"
    /\ green_energy' = rolling_mean(green_energy)
    /\ nuclear' = rolling_mean(nuclear)
    /\ fossil_fuels' = rolling_mean(fossil_fuels)
    /\ coal' = rolling_mean(coal)
    /\ pc' = "smoothed"
    /\ UNCHANGED <<err, dataVars, percentVars, axesVars, fileVars, studyVars>>

\* the total and the four percentages
Normalise ==
    /\ pc = "smoothed"
    /\ total' = total_of(green_energy, fossil_fuels, coal, nuclear)
    /\ green_percent' = percent_of(green_energy, total')
    /\ nuclear_percent' = percent_of(nuclear, total')
    /\ fossil_fuels_percent' = percent_of(fossil_fuels, total')
    /\ coal_percent' = percent_of(coal, total')
    /\ pc' = "normalised"
    /\ UNCHANGED <<err, dataVars, seriesVars, axesVars, fileVars, studyVars>>

\* plt.subplots and ax.stackplot
Stackplot ==
    /\ pc = "normalised"
    /\ dataLim' = stack_data_lim(green_percent, nuclear_percent,
                                 fossil_fuels_percent, coal_percent)
    /\ ylim' = IF autoscaley_on THEN autoscale_view(dataLim', FALSE, ylim)
               ELSE ylim
    /\ pc' = "plotted"
    /\ UNCHANGED <<err, dataVars, seriesVars, percentVars, autoscaley_on, xlim,
                   fileVars, studyVars>>

\* ax.set_ylim([0, 1]) and then ax.set_xlim([datetime(2012, 1, 1),
\* timestamp.iloc[-1]]); iloc[-1] of an empty Series raises IndexError
SetLimits ==
    /\ pc = "plotted"
    /\ ylim' = [lo |-> Int2F(YLimLow), hi |-> Int2F(YLimHigh)]
    /\ autoscaley_on' = FALSE
    /\ \/ /\ Len(df_filtered) > 0
          /\ xlim' = [lo |-> StartDate,
                      hi |-> df_filtered[Len(df_filtered)].timestamp]
          /\ pc' = "limited"
          /\ err' = err
       \/ /\ Len(df_filtered) = 0
          /\ Raise("IndexError")
          /\ xlim' = xlim
    /\ UNCHANGED <<dataVars, seriesVars, percentVars, dataLim, fileVars,
                   studyVars>>

\* plt.autoscale(enable=True, axis="y", tight=True)
Autoscale ==
    /\ pc = "limited"
    /\ autoscaley_on' = TRUE
    /\ ylim' = autoscale_view(dataLim, TRUE, ylim)
    /\ pc' = "autoscaled"
    /\ UNCHANGED <<err, dataVars, seriesVars, percentVars, dataLim, xlim,
                   fileVars, studyVars>>

\* os.makedirs("./images/", exist_ok=True)
MakeDirs ==
    /\ pc = "autoscaled"
    /\ \/ pc' = "ready" /\ err' = err
       \/ Raise("OSError: makedirs")
    /\ UNCHANGED <<dataVars, seriesVars, percentVars, axesVars, fileVars,
                   studyVars>>

\* fig.savefig(".../gb_electricity_production.png")
SavePng ==
    /\ pc = "ready"
    /\ \/ png' = TRUE /\ pc' = "png_saved" /\ err' = err
       \/ png' = png /\ Raise("OSError: savefig png")
    /\ UNCHANGED <<dataVars, seriesVars, percentVars, axesVars, svg, studyVars>>

\* variant: a failed save is swallowed and the script carries on
SaveSvg_swallow ==
    /\ pc = "png_saved"
    /\ \/ svg' = TRUE
       \/ svg' = svg
    /\ pc' = "svg_saved"
    /\ UNCHANGED <<err, dataVars, seriesVars, percentVars, axesVars, png,
                   studyVars>>

\* fig.savefig(".../gb_electricity_production.svg")
SaveSvg ==
    /\ pc = "png_saved"
    /\ \/ svg' = TRUE /\ pc' = "svg_saved" /\ err' = err
       \/ svg' = svg /\ Raise("OSError: savefig svg")
    /\ UNCHANGED <<dataVars, seriesVars, percentVars, axesVars, png, studyVars>>

\* plt.show(), after which the script ends
Show ==
    /\ pc = "svg_saved"
    /\ pc' = "done"
    /\ UNCHANGED <<err, dataVars, seriesVars, percentVars, axesVars, fileVars,
                   studyVars>>

Next ==
    \/ Load
    \/ Filter
    \/ Aggregate
    \/ Smooth
    \/ Normalise
    \/ Stackplot
    \/ SetLimits
    \/ Autoscale
    \/ MakeDirs
    \/ SavePng
    \/ SaveSvg
    \/ Show

Spec == Init /\ [][Next]_vars

(***************************************************************************)
(* The filter alone, on Datasets with more rows and more demand values.    *)
(***************************************************************************)
NextFilter == LoadDemand \/ Filter

SpecFilter == Init /\ [][NextFilter]_vars

(***************************************************************************)
(* The moving average alone: series.rolling(N, min_periods=1).mean() for   *)
(* a chosen series and window size.                                        *)
(***************************************************************************)
\* the values a series is drawn from
SeriesValues == -1..2

Windows == (1..MaxWindow) \cup {Window}

ChooseSeries ==
    /\ pc = "start"
    /\ \E n \in 0..MaxLen : \E s \in [1..n -> SeriesValues] : series' = s
    /\ \E N \in Windows : window' = N
    /\ rolled' = rolled
    /\ pc' = "chosen"
    /\ UNCHANGED <<err, dataVars, seriesVars, percentVars, axesVars, fileVars>>

Roll ==
    /\ pc = "chosen"
    /\ rolled' = rolling(series, window)
    /\ pc' = "rolled"
    /\ UNCHANGED <<err, dataVars, seriesVars, percentVars, axesVars, fileVars,
                   series, window>>

NextRolling == ChooseSeries \/ Roll

SpecRolling == Init /\ [][NextRolling]_vars

(***************************************************************************)
(* Properties.                                                             *)
(***************************************************************************)
\* the stages a run has completed; an unhandled exception keeps what was
\* computed before it
Running == {"filtered", "aggregated", "smoothed", "normalised", "plotted",
            "limited", "autoscaled", "ready", "png_saved", "svg_saved", "done"}

\* every exception but the loader's is raised after normalisation
Failed == pc = "error" /\ err # "FileNotFoundError"

AfterFilter == pc \in Running \/ Failed

AfterSmooth == pc \in (Running \ {"filtered", "aggregated"}) \/ Failed

AfterNormalise ==
    pc \in (Running \ {"filtered", "aggregated", "smoothed"}) \/ Failed

Terminated == pc \in {"done", "error"}

Demands(rows) == {rows[i].demand : i \in 1..Len(rows)}

MinOf(S) == CHOOSE x \in S : \A y \in S : x <= y

MaxOf(S) == CHOOSE x \in S : \A y \in S : y <= x

RECURSIVE RangeSum(_, _, _)
RangeSum(s, a, b) == IF a > b THEN 0 ELSE s[b] + RangeSum(s, a, b - 1)

Sum4(a, b, c, d) == FAdd(FAdd(FAdd(a, b), c), d)

Rows == 1..Len(df_filtered)

\* the sum of the four smoothed series at row i
SmoothedSum(i) == Sum4(green_energy[i], nuclear[i], fossil_fuels[i], coal[i])

\* the percentage series paired with the smoothed series they come from
Shares == {<<green_percent, green_energy>>, <<nuclear_percent, nuclear>>,
           <<fossil_fuels_percent, fossil_fuels>>, <<coal_percent, coal>>}

\* C1: every row filter_data returns has a demand strictly above the low
\* quantile and strictly below the high quantile of the demand column of the
\* original, unfiltered Dataset.
C1_FilteredInsideQuantiles ==
    AfterFilter =>
        \A i \in Rows :
            /\ FLt(quantile(Column(df, "demand"), QLowNum),
                   Int2F(df_filtered[i].demand))
            /\ FLt(Int2F(df_filtered[i].demand),
                   quantile(Column(df, "demand"), QHiNum))

\* C1 witness: the filter kept rows of two different demands and dropped some.
C1_Witness ==
    /\ pc = "filtered"
    /\ Cardinality(Demands(df_filtered)) >= 2
    /\ Len(df_filtered) < Len(df)

\* C2: selecting again, from the filter's output, the rows strictly between
\* the quantiles derived from the original Dataset changes nothing.
C2_FilterIdempotent ==
    AfterFilter =>
        FilterRows(df_filtered, quantile(Column(df, "demand"), QLowNum),
                   quantile(Column(df, "demand"), QHiNum)) = df_filtered

\* C2 witness: a non-empty filter output on which quantiles re-derived from
\* the output itself would select fewer rows.
C2_Witness ==
    /\ pc = "filtered"
    /\ df_filtered # <<>>
    /\ filter_data(df_filtered) # df_filtered

\* C3: for a series of length L and a window N >= 1 the moving average has
\* length L and element i is the mean of elements max(first, i-N+1)..i; N = 1
\* is the identity; N > L gives the mean of all elements up to i; no element
\* is undefined.
C3_MovingAverage ==
    pc = "rolled" =>
        /\ Len(rolled) = Len(series)
        /\ \A i \in 1..Len(series) :
              LET a == IF i - window + 1 > 1 THEN i - window + 1 ELSE 1
              IN  /\ rolled[i] = Fin(RangeSum(series, a, i), i - a + 1)
                  /\ window = 1 => rolled[i] = Int2F(series[i])
                  /\ window > Len(series) =>
                        rolled[i] = Fin(RangeSum(series, 1, i), i)
                  /\ ~IsNaN(rolled[i])

\* C3 witness: a window shorter than the series has slid: the last element
\* is not the mean of the whole series.
C3_Witness ==
    /\ pc = "rolled"
    /\ window > 1
    /\ window < Len(series)
    /\ rolled[Len(series)] # Fin(RangeSum(series, 1, Len(series)), Len(series))

\* C4: at every row where the four smoothed series do not sum to zero, the
\* four percentages sum to 100.
C4_PercentagesSumTo100 ==
    AfterNormalise =>
        \A i \in Rows :
            SmoothedSum(i).n # 0 =>
                Sum4(green_percent[i], nuclear_percent[i],
                     fossil_fuels_percent[i], coal_percent[i]) = Int2F(100)

\* C4 witness: two rows or more, a non-zero smoothed sum that differs from
\* the smoothed demand.
C4_Witness ==
    /\ pc = "normalised"
    /\ Len(df_filtered) >= 2
    /\ \E i \in Rows :
          /\ SmoothedSum(i).n # 0
          /\ SmoothedSum(i) # rolling_mean(Column(df_filtered, "demand"))[i]
          /\ green_percent[i].n # 0

\* C5 as stated: where the smoothed total is 0 all four percentages are NaN,
\* and every other row holds the values computed from its own smoothed values.
C5_ZeroTotalAllNaN ==
    AfterNormalise =>
        \A i \in Rows, s \in Shares :
            IF total[i].n = 0
            THEN IsNaN(s[1][i])
            ELSE s[1][i] = FDiv(FScale(100, s[2][i]), total[i])

\* C5 amended: where the smoothed total is 0 each percentage is non-finite,
\* NaN where its own smoothed value is 0 and the infinity of that value's sign
\* where it is not; every other row holds the finite value 100 * smoothed /
\* total computed from its own smoothed values; the run goes on.
C5_ZeroTotalNonFinite ==
    AfterNormalise =>
        /\ Len(total) = Len(df_filtered)
        /\ \A i \in Rows, s \in Shares :
              IF total[i].n = 0
              THEN s[1][i] = IF s[2][i].n = 0 THEN NaN ELSE Inf(Sign(s[2][i].n))
              ELSE s[1][i] = Fin(100 * s[2][i].n * total[i].d,
                                 s[2][i].d * total[i].n)

\* C5 witness: one row with a zero total and a non-zero smoothed value, next
\* to a row with a non-zero total, and the run has gone on to the plot.
C5_Witness ==
    /\ pc = "plotted"
    /\ \E i, j \in Rows :
          /\ total[i].n = 0
          /\ green_energy[i].n # 0
          /\ total[j].n # 0

\* C6 as stated: a run whose filter leaves no row raises no error of its own
\* and goes on to write both images.
C6_EmptyFilterCompletes ==
    (AfterFilter /\ df_filtered = <<>>) => err # "IndexError"

\* C7 as stated: no run ends with exactly one of the two images written.
C7_NoPartialSuccess == Terminated => (png <=> svg)

\* C7 amended: a run that completes has written both images; a run that ends
\* with an unhandled error has not written the SVG, and has written the PNG
\* only when the error was raised while saving the SVG; the SVG is never
\* written without the PNG.
C7_BothOrError ==
    /\ pc = "done" => (png /\ svg /\ err = "none")
    /\ svg => png
    /\ pc = "error" => (~svg /\ (png <=> err = "OSError: savefig svg"))

\* C7 witness: a run ended by an error with the PNG written and the SVG not.
C7_Witness == pc = "error" /\ png /\ ~svg

\* C8: the filter returns rows of the input in their original order with
\* unchanged values, and the category sums, the smoothed series, the total and
\* the percentages all have the filtered Dataset's length and row alignment.
C8_RowAlignment ==
    /\ AfterFilter =>
          /\ \A i \in Rows :
                /\ df_filtered[i].id \in 1..Len(df)
                /\ df_filtered[i] = df[df_filtered[i].id]
          /\ \A i, j \in Rows : i < j => df_filtered[i].id < df_filtered[j].id
    /\ pc = "aggregated" =>
          /\ green_energy = green_sum(df_filtered)
          /\ fossil_fuels = fossil_sum(df_filtered)
          /\ DOMAIN nuclear = Rows /\ DOMAIN coal = Rows
          /\ \A i \in Rows : /\ nuclear[i] = df_filtered[i].nuclear
                             /\ coal[i] = df_filtered[i].coal
    /\ AfterSmooth =>
          /\ DOMAIN green_energy = Rows /\ DOMAIN fossil_fuels = Rows
          /\ DOMAIN nuclear = Rows /\ DOMAIN coal = Rows
          /\ \A i \in Rows :
                /\ nuclear[i] = Fin(RangeSum(Column(df_filtered, "nuclear"), 1, i), i)
                /\ coal[i] = Fin(RangeSum(Column(df_filtered, "coal"), 1, i), i)
                /\ green_energy[i] = Fin(RangeSum(green_sum(df_filtered), 1, i), i)
                /\ fossil_fuels[i] = Fin(RangeSum(fossil_sum(df_filtered), 1, i), i)
    /\ AfterNormalise =>
          /\ DOMAIN total = Rows
          /\ \A s \in Shares : DOMAIN s[1] = Rows
          /\ \A i \in Rows : total[i] = SmoothedSum(i)

\* C8 witness: normalisation done on three rows or more, kept from around a
\* row that the filter dropped.
C8_Witness ==
    /\ pc = "normalised"
    /\ Len(df_filtered) >= 3
    /\ \E i \in Rows : i > 1 /\ df_filtered[i].id > df_filtered[i - 1].id + 1
    /\ \E i, j \in Rows : df_filtered[i].demand # df_filtered[j].demand

\* C9 as stated: the y limits in effect when the images are written are 0
\* and 100.
C9_YLimits0To100 == png => ylim = [lo |-> Int2F(0), hi |-> Int2F(100)]

\* no smoothed value is negative and some row has a non-zero smoothed total
OrdinaryData ==
    /\ \A i \in Rows, s \in Shares : s[2][i].n >= 0
    /\ \E i \in Rows : total[i].n # 0

\* C9 amended: the y limits in effect when the images are written are the
\* ones autoscaling derives from the stacked data, not those of set_ylim; they
\* are 0 and 100 whenever no smoothed value is negative and some row has a
\* non-zero smoothed total.
C9_YLimitsOrdinaryData ==
    png => /\ autoscaley_on
           /\ OrdinaryData => ylim = [lo |-> Int2F(0), hi |-> Int2F(100)]

\* C9 witness: the PNG written for ordinary data that includes a NaN row.
C9_Witness ==
    /\ png
    /\ OrdinaryData
    /\ \E i \in Rows : IsNaN(green_percent[i])
    /\ ylim = [lo |-> Int2F(0), hi |-> Int2F(100)]

\* C10: on a non-empty Dataset the filter drops every row whose demand is the
\* minimum or the maximum of the input, so its output is strictly shorter
\* than its input, and empty for an input of one or two rows.
C10_ExtremesRemoved ==
    (AfterFilter /\ Len(df) > 0) =>
        /\ \A i \in Rows :
              /\ df_filtered[i].demand # MinOf(Demands(df))
              /\ df_filtered[i].demand # MaxOf(Demands(df))
        /\ Len(df_filtered) < Len(df)
        /\ Len(df) <= 2 => df_filtered = <<>>

\* C10 witness: the minimum and the maximum each occur twice and all four
\* rows are dropped, while a row in between is kept.
C10_Witness ==
    /\ pc = "filtered"
    /\ Len(df) = 5
    /\ Len(df_filtered) = 1
    /\ Cardinality({i \in 1..5 : df[i].demand = MinOf(Demands(df))}) = 2
    /\ Cardinality({i \in 1..5 : df[i].demand = MaxOf(Demands(df))}) = 2

====
